---- MODULE Spec2Model ----
(***************************************************************************)
(* BitBuilder (src/boc/BitBuilder.ts): an append-only writer that packs    *)
(* bits, fixed-width and variable-length integers, byte buffers and        *)
(* addresses MSB-first into a byte buffer of fixed size.                   *)
(*                                                                         *)
(* A JavaScript value that is either a number or a bigint is the record    *)
(* [t |-> "number" | "bigint" | "boolean", v |-> the integer].  A builder  *)
(* inside one call is the record [buf, len, err]: the bytes of _buffer     *)
(* (buf[i + 1] is _buffer[i]), _length, and the error thrown so far        *)
(* ("none" while the call is still running normally).  A statement after   *)
(* a throw is skipped: every writer returns its argument unchanged once    *)
(* err is set.                                                             *)
(***************************************************************************)
EXTENDS Integers, Sequences, FiniteSets, TLC

VARIABLES _buffer, _length, size, last, appends

vars == <<_buffer, _length, size, last, appends>>

-----------------------------------------------------------------------------
(* Bounds of the exploration                                               *)

\* the largest capacity a builder is constructed with
MaxSize == 33
\* append calls made on one builder
MaxAppends == 2

-----------------------------------------------------------------------------
(* Arithmetic of the JavaScript operators the code uses                    *)

RECURSIVE Pow2(_)
Pow2(n) == IF n <= 0 THEN 1 ELSE 2 * Pow2(n - 1)

\* 1 << k for k in 0..7
Shl1(k) == <<1, 2, 4, 8, 16, 32, 64, 128>>[k + 1]

\* variant: Math.floor(n / 8) + 1, one byte too many for a multiple of 8
CeilDiv8_floorPlusOne(n) == (n \div 8) + 1

\* Math.ceil(n / 8) for n >= 0
CeilDiv8(n) == (n + 7) \div 8

\* v.toString(2).length for v > 0: the number of binary digits
RECURSIVE BitLength(_)
BitLength(v) == IF v <= 1 THEN 1 ELSE 1 + BitLength(v \div 2)

Num(n) == [t |-> "number", v |-> n]
Big(n) == [t |-> "bigint", v |-> n]
Bool(b) == [t |-> "boolean", v |-> IF b THEN 1 ELSE 0]

\* value !== k n  (strict inequality with a bigint literal: a number is
\* never strictly equal to a bigint)
StrictNeqBig(value, k) == ~(value.t = "bigint" /\ value.v = k)

\* buf[idx] = byte on a Uint8Array: the value is stored modulo 256, a store
\* outside the array is ignored
StoreByte(buf, idx, byte) ==
    IF idx >= 0 /\ idx < Len(buf)
    THEN [buf EXCEPT ![idx + 1] = byte % 256]
    ELSE buf

\* variant: buf[idx] = mask, which clears the other bits of the byte
OrMask_assign(buf, idx, mask) ==
    IF idx >= 0 /\ idx < Len(buf)
    THEN [buf EXCEPT ![idx + 1] = mask]
    ELSE buf

\* buf[idx] |= mask, mask a single bit
OrMask(buf, idx, mask) ==
    IF idx >= 0 /\ idx < Len(buf)
    THEN IF (buf[idx + 1] \div mask) % 2 = 1
         THEN buf
         ELSE [buf EXCEPT ![idx + 1] = buf[idx + 1] + mask]
    ELSE buf

\* bit n of the storage, MSB first within each byte; 0 outside the storage
BitAt(buf, n) ==
    IF n \div 8 < Len(buf)
    THEN (buf[(n \div 8) + 1] \div Shl1(7 - (n % 8))) % 2
    ELSE 0

Throw(s, e) == [s EXCEPT !.err = e]

-----------------------------------------------------------------------------
(* The writers                                                             *)

\* constructor: Buffer.alloc(Math.ceil(size / 8)), _length = 0
Construct(sz) == [buf |-> [i \in 1..CeilDiv8(sz) |-> 0], len |-> 0, err |-> "none"]

writeBit(s, value) ==
    IF s.err # "none" THEN s
    ELSE IF s.len > Len(s.buf) * 8 THEN Throw(s, "overflow")
    ELSE [s EXCEPT
            !.buf = IF (value.t = "boolean" /\ value.v = 1) \/ value.v > 0
                    THEN OrMask(s.buf, s.len \div 8, Shl1(7 - (s.len % 8)))
                    ELSE s.buf,
            !.len = s.len + 1]

\* for (let i = 0; i < src.length; i++) this.writeBit(src.at(i))
RECURSIVE writeBitsLoop(_, _, _)
writeBitsLoop(s, src, i) ==
    IF i >= Len(src) \/ s.err # "none" THEN s
    ELSE writeBitsLoop(writeBit(s, Bool(src[i + 1])), src, i + 1)

writeBits(s, src) == writeBitsLoop(s, src, 0)

\* b = []; while (v > 0) { b.push(v % 2n === 1n); v /= 2n }  (LSB first)
RECURSIVE ToBits(_)
ToBits(v) == IF v > 0 THEN <<(v % 2 = 1)>> \o ToBits(v \div 2) ELSE <<>>

\* variant: off = i, the least significant bit first
RECURSIVE writeUintLoop_lsbFirst(_, _, _, _)
writeUintLoop_lsbFirst(s, b, bits, i) ==
    IF i >= bits \/ s.err # "none" THEN s
    ELSE LET off == i
         IN  writeUintLoop_lsbFirst(
                 IF off < Len(b) THEN writeBit(s, Bool(b[off + 1]))
                                 ELSE writeBit(s, Bool(FALSE)),
                 b, bits, i + 1)

\* for (let i = 0; i < bits; i++) { off = bits - i - 1; ... }
RECURSIVE writeUintLoop(_, _, _, _)
writeUintLoop(s, b, bits, i) ==
    IF i >= bits \/ s.err # "none" THEN s
    ELSE LET off == bits - i - 1
         IN  writeUintLoop(
                 IF off < Len(b) THEN writeBit(s, Bool(b[off + 1]))
                                 ELSE writeBit(s, Bool(FALSE)),
                 b, bits, i + 1)

writeUint(s, value, bits) ==
    IF s.err # "none" THEN s
    ELSE IF bits = 8 /\ s.len % 8 = 0 THEN
        IF value.v < 0 \/ value.v > 255 THEN Throw(s, "range")
        ELSE [s EXCEPT !.buf = StoreByte(s.buf, s.len \div 8, value.v),
                       !.len = s.len + 8]
    ELSE IF bits = 16 /\ s.len % 8 = 0 THEN
        IF value.v < 0 \/ value.v > 65536 THEN Throw(s, "range")
        ELSE [s EXCEPT !.buf = StoreByte(StoreByte(s.buf, s.len \div 8, value.v \div 256),
                                         (s.len \div 8) + 1, value.v % 256),
                       !.len = s.len + 16]
    ELSE IF bits < 0 THEN Throw(s, "invalidLength")
    ELSE IF bits = 0 THEN
        IF StrictNeqBig(value, 0) THEN Throw(s, "valueMismatch") ELSE s
    ELSE IF value.v < 0 \/ value.v >= Pow2(bits) THEN Throw(s, "range")
    ELSE writeUintLoop(s, ToBits(value.v), bits, 0)

\* for (let i = 0; i < src.length; i++) this.writeUint(src[i], 8)
RECURSIVE writeBufferLoop(_, _, _)
writeBufferLoop(s, src, i) ==
    IF i >= Len(src) \/ s.err # "none" THEN s
    ELSE writeBufferLoop(writeUint(s, Num(src[i + 1]), 8), src, i + 1)

\* variant: src.copy(target), the offset forgotten
BufferCopy_atStart(src, target, targetStart) ==
    [j \in 1..Len(target) |-> IF j <= Len(src) THEN src[j] ELSE target[j]]

\* src.copy(target, targetStart): the bytes of src that fit
BufferCopy(src, target, targetStart) ==
    [j \in 1..Len(target) |->
        IF j - 1 >= targetStart /\ j - 1 - targetStart < Len(src)
        THEN src[j - targetStart]
        ELSE target[j]]

\* variant: the copy made before the overflow check
writeBuffer_copyFirst(s, src) ==
    IF s.err # "none" THEN s
    ELSE IF s.len % 8 = 0 THEN
        LET copied == [s EXCEPT !.buf = BufferCopy(src, s.buf, s.len \div 8)]
        IN  IF s.len + Len(src) * 8 > Len(s.buf) * 8
            THEN Throw(copied, "overflow")
            ELSE [copied EXCEPT !.len = s.len + Len(src) * 8]
    ELSE writeBufferLoop(s, src, 0)

writeBuffer(s, src) ==
    IF s.err # "none" THEN s
    ELSE IF s.len % 8 = 0 THEN
        IF s.len + Len(src) * 8 > Len(s.buf) * 8 THEN Throw(s, "overflow")
        ELSE [s EXCEPT !.buf = BufferCopy(src, s.buf, s.len \div 8),
                       !.len = s.len + Len(src) * 8]
    ELSE writeBufferLoop(s, src, 0)

\* variant: a negative value written as sign and magnitude
writeInt_signMagnitude(s, value, bits) ==
    IF s.err # "none" THEN s
    ELSE IF bits < 0 THEN Throw(s, "invalidLength")
    ELSE IF bits = 0 THEN
        IF StrictNeqBig(value, 0) THEN Throw(s, "valueMismatch") ELSE s
    ELSE IF bits = 1 THEN
        IF StrictNeqBig(value, -1) /\ StrictNeqBig(value, 0) THEN Throw(s, "range")
        ELSE writeBit(s, Bool(~StrictNeqBig(value, -1)))
    ELSE LET vBits == Pow2(bits - 1)
             v == value.v
         IN  IF v < -vBits \/ v >= vBits THEN Throw(s, "range")
             ELSE IF v < 0
                  THEN writeUint(writeBit(s, Bool(TRUE)), Big((-v) % vBits), bits - 1)
                  ELSE writeUint(writeBit(s, Bool(FALSE)), Big(v), bits - 1)

writeInt(s, value, bits) ==
    IF s.err # "none" THEN s
    ELSE IF bits < 0 THEN Throw(s, "invalidLength")
    ELSE IF bits = 0 THEN
        IF StrictNeqBig(value, 0) THEN Throw(s, "valueMismatch") ELSE s
    ELSE IF bits = 1 THEN
        IF StrictNeqBig(value, -1) /\ StrictNeqBig(value, 0) THEN Throw(s, "range")
        ELSE writeBit(s, Bool(~StrictNeqBig(value, -1)))
    ELSE LET vBits == Pow2(bits - 1)
             v == value.v
         IN  IF v < -vBits \/ v >= vBits THEN Throw(s, "range")
             ELSE IF v < 0
                  THEN writeUint(writeBit(s, Bool(TRUE)), Big(vBits + v), bits - 1)
                  ELSE writeUint(writeBit(s, Bool(FALSE)), Big(v), bits - 1)

writeVarUint(s, value, bits) ==
    IF s.err # "none" THEN s
    ELSE IF bits < 0 THEN Throw(s, "invalidLength")
    ELSE IF value.v < 0 THEN Throw(s, "range")
    ELSE IF value.v = 0 THEN writeUint(s, Num(0), bits)
    ELSE LET sizeBytes == CeilDiv8(BitLength(value.v))
             sizeBits == sizeBytes * 8
         IN  writeUint(writeUint(s, Num(sizeBytes), bits), Big(value.v), sizeBits)

writeVarInt(s, value, bits) ==
    IF s.err # "none" THEN s
    ELSE IF bits < 0 THEN Throw(s, "invalidLength")
    ELSE IF value.v = 0 THEN writeUint(s, Num(0), bits)
    ELSE LET v2 == IF value.v > 0 THEN value.v ELSE -value.v
             sizeBytes == 1 + CeilDiv8(BitLength(v2))
             sizeBits == sizeBytes * 8
         IN  writeInt(writeUint(s, Num(sizeBytes), bits), Big(value.v), sizeBits)

writeCoins(s, amount) == writeVarUint(s, amount, 4)

\* An address argument is [kind |-> "null" | "internal" | "external" |
\* "other", workChain, hash, bits, value]; kind says which of
\* address === null, Address.isAddress, ExternalAddress.isAddress holds.
writeAddress(s, address) ==
    IF s.err # "none" THEN s
    ELSE IF address.kind = "null" THEN writeUint(s, Num(0), 2)
    ELSE IF address.kind = "internal" THEN
        writeBuffer(
            writeInt(writeUint(writeUint(s, Num(2), 2), Num(0), 1),
                     Num(address.workChain), 8),
            address.hash)
    ELSE IF address.kind = "external" THEN
        writeUint(
            writeUint(writeUint(s, Num(1), 2), Num(address.bits), 9),
            Big(address.value), address.bits)
    ELSE Throw(s, "invalidAddress")

-----------------------------------------------------------------------------
(* Inputs of the calls                                                     *)

\* capacities given to the constructor: none, a few bits, and the largest
Sizes == {0, 5, MaxSize}

\* BitString sources of writeBits
BitStrings ==
    {<<>>, <<TRUE>>, <<TRUE, FALSE, TRUE, TRUE, FALSE>>,
     <<FALSE, TRUE, TRUE, FALSE, TRUE, FALSE, TRUE>>}

\* Buffer sources of writeBuffer
Buffers == {<<>>, <<165>>, <<165, 255>>, <<255, 0, 129>>}

\* hashes of an Address (all of one length)
Hashes == {<<165, 255>>, <<1, 128>>}

BitValues == {Bool(TRUE), Bool(FALSE), Num(2), Num(0), Num(-1)}

UintValues ==
    {Num(v) : v \in {-1, 0, 1, 255, 256, 65535, 65536}}
        \cup {Big(v) : v \in {0, 1}}

UintWidths == {-1, 0, 1, 3, 8, 16}

IntValues ==
    {Num(v) : v \in {-257, -256, -1, 0, 255, 256}}
        \cup {Big(v) : v \in {-1, 0}}

IntWidths == {0, 1, 2, 9, 17}

VarUintValues == {Num(v) : v \in {-1, 0, 255, 256, 65536}} \cup {Big(0)}

VarUintWidths == {0, 1, 4, 8}

VarIntValues == {Num(v) : v \in {-256, 0, 255}}

VarIntWidths == {-1, 1, 4}

NoAddress ==
    [kind |-> "null", workChain |-> 0, hash |-> <<>>, bits |-> 0, value |-> 0]

\* an Address: a workchain number and a hash of fixed length
InternalAddresses ==
    {[NoAddress EXCEPT !.kind = "internal", !.workChain = w, !.hash = h] :
        w \in {-1, 0, 128}, h \in Hashes}

\* an ExternalAddress: a bit length and a value
ExternalAddresses ==
    {[NoAddress EXCEPT !.kind = "external", !.bits = p[1], !.value = p[2]] :
        p \in {<<0, 0>>, <<3, 5>>, <<8, 255>>, <<16, 65535>>,
               <<1, 2>>, <<512, 0>>}}

Addresses ==
    {NoAddress, [NoAddress EXCEPT !.kind = "other"]}
        \cup InternalAddresses \cup ExternalAddresses

-----------------------------------------------------------------------------
(* The builder and the calls made on it                                    *)

\* the builder as the argument of a writer
Self == [buf |-> _buffer, len |-> _length, err |-> "none"]

NoCall ==
    [op |-> "new", value |-> Num(0), bits |-> 0, src |-> <<>>,
     address |-> NoAddress, err |-> "none", prevLength |-> 0,
     prevBuffer |-> <<>>, ret |-> <<>>, view |-> [offset |-> 0, length |-> 0]]

Init ==
    /\ size \in Sizes
    /\ _buffer = Construct(size).buf
    /\ _length = Construct(size).len
    /\ last = [NoCall EXCEPT !.prevBuffer = _buffer]
    /\ appends = 0

\* no call is running and the outcome of the last one has been taken
Ready == last.op \in {"new", "return"}

\* one append call: the builder becomes what the writer left, also when it
\* threw; last records the call, its outcome and the builder before it
Call(call, s) ==
    /\ appends' = appends + 1
    /\ _buffer' = s.buf
    /\ _length' = s.len
    /\ last' = [call EXCEPT !.err = s.err, !.prevLength = _length,
                            !.prevBuffer = _buffer]
    /\ UNCHANGED size

WriteBit ==
    \E value \in BitValues :
        /\ Ready /\ appends < MaxAppends
        /\ Call([NoCall EXCEPT !.op = "writeBit", !.value = value],
                writeBit(Self, value))

WriteBits ==
    \E src \in BitStrings :
        /\ Ready /\ appends < MaxAppends
        /\ Call([NoCall EXCEPT !.op = "writeBits", !.src = src],
                writeBits(Self, src))

WriteBuffer ==
    \E src \in Buffers :
        /\ Ready /\ appends < MaxAppends
        /\ Call([NoCall EXCEPT !.op = "writeBuffer", !.src = src],
                writeBuffer(Self, src))

WriteUint ==
    \E value \in UintValues, bits \in UintWidths :
        /\ Ready /\ appends < MaxAppends
        /\ Call([NoCall EXCEPT !.op = "writeUint", !.value = value, !.bits = bits],
                writeUint(Self, value, bits))

WriteInt ==
    \E value \in IntValues, bits \in IntWidths :
        /\ Ready /\ appends < MaxAppends
        /\ Call([NoCall EXCEPT !.op = "writeInt", !.value = value, !.bits = bits],
                writeInt(Self, value, bits))

WriteVarUint ==
    \E value \in VarUintValues, bits \in VarUintWidths :
        /\ Ready /\ appends < MaxAppends
        /\ Call([NoCall EXCEPT !.op = "writeVarUint", !.value = value, !.bits = bits],
                writeVarUint(Self, value, bits))

WriteVarInt ==
    \E value \in VarIntValues, bits \in VarIntWidths :
        /\ Ready /\ appends < MaxAppends
        /\ Call([NoCall EXCEPT !.op = "writeVarInt", !.value = value, !.bits = bits],
                writeVarInt(Self, value, bits))

WriteCoins ==
    \E amount \in VarUintValues :
        /\ Ready /\ appends < MaxAppends
        /\ Call([NoCall EXCEPT !.op = "writeCoins", !.value = amount],
                writeCoins(Self, amount))

WriteAddress ==
    \E address \in Addresses :
        /\ Ready /\ appends < MaxAppends
        /\ Call([NoCall EXCEPT !.op = "writeAddress", !.address = address],
                writeAddress(Self, address))

\* new BitString(this._buffer, 0, this._length): the view returned holds
\* no bits of its own, only the offset and the length of a span of the
\* builder's storage
Build ==
    /\ Ready
    /\ last' = [NoCall EXCEPT !.op = "build",
                              !.view = [offset |-> 0, length |-> _length],
                              !.prevLength = _length, !.prevBuffer = _buffer]
    /\ UNCHANGED <<_buffer, _length, size, appends>>

\* this._buffer.subarray(0, this._length / 8), or the alignment error
Buffer ==
    /\ Ready
    /\ last' = [NoCall EXCEPT
                  !.op = "buffer",
                  !.err = IF _length % 8 # 0 THEN "alignment" ELSE "none",
                  !.ret = IF _length % 8 # 0 THEN <<>>
                          ELSE SubSeq(_buffer, 1,
                                      IF _length \div 8 < Len(_buffer)
                                      THEN _length \div 8 ELSE Len(_buffer)),
                  !.prevLength = _length, !.prevBuffer = _buffer]
    /\ UNCHANGED <<_buffer, _length, size, appends>>

\* the call has returned or thrown to its caller: the builder is as the call
\* left it and the next call can be made
Return ==
    /\ ~Ready
    /\ last' = [NoCall EXCEPT !.op = "return", !.prevLength = _length,
                              !.prevBuffer = _buffer]
    /\ UNCHANGED <<_buffer, _length, size, appends>>

Next ==
    \/ WriteBit
    \/ WriteBits
    \/ WriteBuffer
    \/ WriteUint
    \/ WriteInt
    \/ WriteVarUint
    \/ WriteVarInt
    \/ WriteCoins
    \/ WriteAddress
    \/ Build
    \/ Buffer
    \/ Return

Spec == Init /\ [][Next]_vars

-----------------------------------------------------------------------------
(* What the last call did                                                  *)

AppendOps ==
    {"writeBit", "writeBits", "writeBuffer", "writeUint", "writeInt",
     "writeVarUint", "writeVarInt", "writeCoins", "writeAddress"}

\* the call left the builder as it found it
Untouched == _length = last.prevLength /\ _buffer = last.prevBuffer

\* the call ended normally and advanced the length by exactly n
Wrote(n) == last.err = "none" /\ _length = last.prevLength + n

\* the unsigned number read MSB-first from the n bits at position from
RECURSIVE DecodeUint(_, _, _)
DecodeUint(buf, from, n) ==
    IF n <= 0 THEN 0
    ELSE 2 * DecodeUint(buf, from, n - 1) + BitAt(buf, from + n - 1)

\* the signed number read from the n bits at position from (two's complement)
DecodeInt(buf, from, n) ==
    DecodeUint(buf, from, n) - (IF BitAt(buf, from) = 1 THEN Pow2(n) ELSE 0)

\* the field of n bits appended at offset off past the old length
Field(off, n) == DecodeUint(_buffer, last.prevLength + off, n)

\* the call had room for n more bits within the constructed capacity
Fits(n) == last.prevLength + n <= size

\* the least number of bytes that hold v > 0
MinBytes(v) == CHOOSE k \in 1..3 : v < Pow2(8 * k) /\ v >= Pow2(8 * (k - 1))

-----------------------------------------------------------------------------
(* C1: the length never leaves 0..capacity, whatever calls were made       *)
(* (refuted: the buffer holds ceil(c/8)*8 bits, writeBit admits one bit    *)
(* more than that, and the byte-aligned paths of writeUint check nothing)  *)
C1_LengthWithinCapacity == 0 <= _length /\ _length <= size

(* C2: an append call that ends in an error leaves length and storage as   *)
(* they were before the call (refuted: the overflow is found bit by bit,   *)
(* after earlier bits of the same call were written)                       *)
C2_FailedCallWritesNothing ==
    (last.op \in AppendOps \ {"writeBit"} /\ last.err # "none") => Untouched

(* C3: writeUint(value, bits) with bits >= 1 succeeds only if              *)
(* 0 <= value < 2^bits, and any other value fails with the range error     *)
(* and writes nothing (refuted: 65536 passes the 16-bit aligned path)      *)
C3_WriteUintRange ==
    (last.op = "writeUint" /\ last.bits >= 1) =>
        LET inRange == 0 <= last.value.v /\ last.value.v < Pow2(last.bits)
        IN  /\ last.err = "none" => inRange
            /\ ~inRange => (last.err = "range" /\ Untouched)

(* C4: widths 0 and 1 accept exactly their representable values, as a      *)
(* number or as a bigint: width 0 accepts 0 alone and writes nothing;      *)
(* writeInt of width 1 accepts 0 and -1 alone and writes the bit 0 or 1    *)
(* (refuted: a number is never strictly equal to the bigint it is compared *)
(* with, so every number is rejected)                                      *)
C4_DegenerateWidths ==
    /\ (last.op \in {"writeUint", "writeInt"} /\ last.bits = 0) =>
           /\ last.value.v = 0 => Wrote(0)
           /\ last.value.v # 0 => last.err # "none"
           /\ Untouched
    /\ (last.op = "writeInt" /\ last.bits = 1) =>
           /\ (last.value.v \in {0, -1} /\ Fits(1)) =>
                  /\ Wrote(1)
                  /\ Field(0, 1) = (IF last.value.v = -1 THEN 1 ELSE 0)
           /\ last.value.v \notin {0, -1} => (last.err = "range" /\ Untouched)

(* C5: writeUint(v, b) with b >= 1, 0 <= v < 2^b and room for b bits       *)
(* advances the length by b, and the b bits appended, read MSB-first, are  *)
(* v; on the byte-aligned paths as on the generic one                      *)
C5_WriteUintEncodes ==
    (/\ last.op = "writeUint" /\ last.bits >= 1
     /\ 0 <= last.value.v /\ last.value.v < Pow2(last.bits)
     /\ Fits(last.bits)) =>
        /\ Wrote(last.bits)
        /\ Field(0, last.bits) = last.value.v

C5_Witness ==
    /\ last.op = "writeUint" /\ last.err = "none"
    /\ last.bits = 16 /\ last.value.v = 256
    /\ last.prevLength = 8 /\ Fits(16)

(* C6: writeInt(v, b) with b >= 2: a v in -2^(b-1) .. 2^(b-1)-1 with room   *)
(* for b bits appends the sign bit and the (b-1)-bit field of v or of      *)
(* 2^(b-1) + v, which decode to v in two's complement; any other v fails   *)
(* with the range error and writes nothing                                 *)
C6_WriteIntEncodes ==
    (last.op = "writeInt" /\ last.bits >= 2) =>
        LET v == last.value.v
            b == last.bits
            inRange == -Pow2(b - 1) <= v /\ v < Pow2(b - 1)
        IN  /\ (inRange /\ Fits(b)) =>
                /\ Wrote(b)
                /\ Field(0, 1) = (IF v < 0 THEN 1 ELSE 0)
                /\ Field(1, b - 1) = (IF v < 0 THEN Pow2(b - 1) + v ELSE v)
                /\ DecodeInt(_buffer, last.prevLength, b) = v
            /\ ~inRange => (last.err = "range" /\ Untouched)

C6_Witness ==
    /\ last.op = "writeInt" /\ last.err = "none"
    /\ last.bits = 9 /\ last.value.v = -256
    /\ last.prevLength = 7 /\ Fits(9)

\* what writeVarUint(v, sizeBits) is to do, sizeBits >= 1
VarUintContract(v, sizeBits) ==
    /\ v < 0 => (last.err = "range" /\ Untouched)
    /\ (v = 0 /\ Fits(sizeBits)) =>
           (Wrote(sizeBits) /\ Field(0, sizeBits) = 0)
    /\ v > 0 =>
           LET k == MinBytes(v)
           IN  /\ k >= Pow2(sizeBits) => (last.err # "none" /\ Untouched)
               /\ (k < Pow2(sizeBits) /\ Fits(sizeBits + 8 * k)) =>
                      /\ Wrote(sizeBits + 8 * k)
                      /\ Field(0, sizeBits) = k
                      /\ Field(sizeBits, 8 * k) = v

C8_WriteAddressEncodes ==
    last.op = "writeAddress" =>
        LET a == last.address
            h == Len(a.hash)
        IN  /\ (a.kind = "null" /\ Fits(2)) => (Wrote(2) /\ Field(0, 2) = 0)
            /\ (/\ a.kind = "internal"
                /\ a.workChain \in -128..127
                /\ Fits(2 + 1 + 8 + 8 * h)) =>
                   /\ Wrote(2 + 1 + 8 + 8 * h)
                   /\ Field(0, 2) = 2
                   /\ Field(2, 1) = 0
                   /\ DecodeInt(_buffer, last.prevLength + 3, 8) = a.workChain
                   /\ \A j \in 1..h : Field(11 + 8 * (j - 1), 8) = a.hash[j]
            /\ (/\ a.kind = "external"
                /\ a.bits \in 0..511
                /\ 0 <= a.value /\ a.value < Pow2(a.bits)
                /\ Fits(11 + a.bits)) =>
                   /\ Wrote(11 + a.bits)
                   /\ Field(0, 2) = 1
                   /\ Field(2, 9) = a.bits
                   /\ Field(11, a.bits) = a.value
            /\ a.kind = "other" => (last.err = "invalidAddress" /\ Untouched)

C8_Witness ==
    /\ last.op = "writeAddress" /\ last.err = "none"
    /\ last.address.kind = "internal" /\ last.address.workChain = -1
    /\ last.prevLength = 5 /\ _length = 32 /\ Fits(27)

(* C9: every bit of the storage at or past the length is zero, after any   *)
(* calls, failed ones included                                             *)
C9_ZeroPastLength ==
    \A i \in 0..(Len(_buffer) * 8 - 1) : i >= _length => BitAt(_buffer, i) = 0

C9_Witness ==
    /\ last.op \in AppendOps /\ last.err = "overflow"
    /\ _length > last.prevLength
    /\ \E i \in 0..(Len(_buffer) * 8 - 1) : BitAt(_buffer, i) = 1

(* C10: no call changes a bit below the length held before it, the length  *)
(* never decreases, and build() and buffer() change nothing; so the span   *)
(* of storage a view returned by build() covers (offset 0, the length at   *)
(* that moment) keeps its bits through every later call                    *)
C10_AppendOnly ==
    /\ _length >= last.prevLength
    /\ Len(_buffer) = Len(last.prevBuffer)
    /\ \A i \in 0..(last.prevLength - 1) :
           BitAt(_buffer, i) = BitAt(last.prevBuffer, i)
    /\ last.op \in {"build", "buffer"} => Untouched
    /\ last.op = "build" => last.view = [offset |-> 0, length |-> _length]

C10_Witness ==
    /\ last.op = "writeUint" /\ last.err = "none" /\ last.bits = 8
    /\ last.prevLength = 8 /\ Len(_buffer) >= 2
    /\ last.prevBuffer[1] = 165 /\ _buffer[2] = 255

====
